---- MODULE Spec2Model ----
(***************************************************************************)
(* Model of vscode_integration.py: the POST /index/chunk handler           *)
(* (receive_code_chunk), the chunk store it appends to (_process_chunk),   *)
(* and the GET /index/status handler (indexing_status).                    *)
(*                                                                         *)
(* Python strings are sequences of one-character strings, so that          *)
(* str.split, str.startswith and slicing are computed, not assumed.        *)
(***************************************************************************)
EXTENDS Integers, Sequences, FiniteSets, TLC

\* ------------------------------------------------------------------ bounds

\* Cap on the number of records the store may hold (state-space bound).
MaxChunks == 3
\* Cap on the number of receive_code_chunk calls suspended at the same time.
MaxInFlight == 2
\* Longest path string explored by the classification specification.
MaxPathLen == 4

\* ------------------------------------------------------------------ strings

S_a_py == <<"a", ".", "p", "y">>
S_b_ts == <<"b", ".", "t", "s">>
S_x_eq_1 == <<"x", "=", "1">>
S_two_lines == <<"a", "\n", "b">>
S_py == <<"p", "y">>
S_ts == <<"t", "s">>
S_js == <<"j", "s">>
S_Bearer == <<"B", "e", "a", "r", "e", "r", " ">>
S_Basic == <<"B", "a", "s", "i", "c", " ">>
S_bearer_lower == <<"b", "e", "a", "r", "e", "r", " ">>
S_key_good == <<"k">>
S_key_bad == <<"z">>
\* A lone surrogate code point (json.loads yields one for the escape \ud800),
\* written as one character, and a path that starts with it.
LoneSurrogate == "U+D800"
S_u_py == <<LoneSurrogate, ".", "p", "y">>

\* The value of self.auth_manager when no manager was passed.
None == "None"
\* The value of self.auth_manager when a manager was passed.
Manager == "auth_manager"

\* str.startswith
StartsWith(s, prefix) ==
    /\ Len(s) >= Len(prefix)
    /\ SubSeq(s, 1, Len(prefix)) = prefix

\* sep in s, for a one-character sep
Contains(s, sep) == \E i \in 1..Len(s) : s[i] = sep

\* str.split(sep) for a one-character sep
RECURSIVE Split(_, _)
Split(s, sep) ==
    IF ~Contains(s, sep)
    THEN <<s>>
    ELSE LET i == CHOOSE k \in 1..Len(s) :
                      /\ s[k] = sep
                      /\ \A j \in 1..(k - 1) : s[j] # sep
         IN  <<SubSeq(s, 1, i - 1)>> \o Split(SubSeq(s, i + 1, Len(s)), sep)

\* seq[-1]
Last(seq) == seq[Len(seq)]

\* ------------------------------------------------------------------ inputs

\* JSON values that occur as members of a request object.
JStr(s) == [type |-> "str", s |-> s, n |-> 0]
JInt(n) == [type |-> "int", s |-> <<>>, n |-> n]
JNull == [type |-> "null", s |-> <<>>, n |-> 0]

\* Request bodies (the bytes returned by request.body()), by what json.loads
\* makes of them.
BodyUndecodable == [kind |-> "undecodable", fields |-> <<>>]
BodyMalformed == [kind |-> "malformed", fields |-> <<>>]
BodyArray == [kind |-> "array", fields |-> <<>>]
BodyObject(fields) == [kind |-> "object", fields |-> fields]

ChunkBody(path, idx, content) ==
    BodyObject([path |-> JStr(path), idx |-> JInt(idx), content |-> JStr(content)])

Paths == {S_a_py, S_b_ts}
Idxs == 0..2
Contents == {S_x_eq_1}
\* Values datetime.utcnow().isoformat() may return.
Instants == {0}

ValidBodies == {ChunkBody(p, i, c) : p \in Paths, i \in Idxs, c \in Contents}

InvalidBodies ==
    { BodyUndecodable,
      BodyMalformed,
      BodyArray,
      BodyObject([path |-> JStr(S_a_py), content |-> JStr(S_x_eq_1)]),
      BodyObject([path |-> JStr(S_a_py), idx |-> JStr(S_x_eq_1),
                  content |-> JStr(S_x_eq_1)]),
      BodyObject([path |-> JNull, idx |-> JInt(0), content |-> JStr(S_x_eq_1)]) }

\* A body with the three fields of the right JSON types whose path holds a
\* lone surrogate: json.loads and CodeChunk take it as they take any string.
SurrogateBodies == {ChunkBody(S_u_py, 0, c) : c \in Contents}

Bodies == ValidBodies \cup SurrogateBodies \cup InvalidBodies

\* The Authorization header of a request: absent, or a string.
NoHeader == [present |-> FALSE, value |-> <<>>]
Header(s) == [present |-> TRUE, value |-> s]

Headers ==
    { NoHeader,
      Header(S_Basic \o S_key_good),
      Header(S_bearer_lower \o S_key_good),
      Header(S_Bearer \o S_key_good),
      Header(S_Bearer \o S_key_bad) }

\* Keys the authentication manager accepts.
ValidKeys == {S_key_good}

\* ------------------------------------------------------------------ state

VARIABLES
    chunk_storage,  \* self.chunk_storage: dict path -> list of records
    auth_manager,   \* self.auth_manager: None or Manager
    in_flight,      \* receive_code_chunk calls suspended at `await request.body()`
    response,       \* the JSONResponse most recently returned by a handler
    answered_ok     \* number of POST /index/chunk requests answered 200 so far

vars == <<chunk_storage, auth_manager, in_flight, response, answered_ok>>

NoResponse == [status |-> 0, body |-> [none |-> TRUE]]

\* JSONResponse(content, status_code=200)
JSONResponse(content, status_code) == [status |-> status_code, body |-> content]

\* Number of records over all paths of a store.
RECURSIVE SumLen(_, _)
SumLen(storage, keys) ==
    IF keys = {}
    THEN 0
    ELSE LET k == CHOOSE x \in keys : TRUE
         IN  Len(storage[k]) + SumLen(storage, keys \ {k})

TotalChunks(storage) == SumLen(storage, DOMAIN storage)

EmptyStorage == [p \in {} |-> <<>>]

\* ------------------------------------------------------------------ parsing

\* json.loads(body): bytes that are not UTF-8 raise UnicodeDecodeError, text
\* that is not JSON raises JSONDecodeError, anything else is returned.
JsonLoads(body) ==
    IF body.kind = "undecodable"
    THEN [exc |-> "UnicodeDecodeError", value |-> body]
    ELSE IF body.kind = "malformed"
         THEN [exc |-> "JSONDecodeError", value |-> body]
         ELSE [exc |-> "none", value |-> body]

NoChunk == [exc |-> "none", path |-> <<>>, idx |-> 0, content |-> <<>>]

\* CodeChunk(**chunk_data): ** of a non-mapping raises TypeError; a missing
\* field or a field of the wrong type raises pydantic's ValidationError.
CodeChunk(chunk_data) ==
    IF chunk_data.kind # "object"
    THEN [NoChunk EXCEPT !.exc = "TypeError"]
    ELSE LET f == chunk_data.fields
         IN  IF /\ {"path", "idx", "content"} \subseteq DOMAIN f
                /\ f.path.type = "str"
                /\ f.idx.type = "int"
                /\ f.content.type = "str"
             THEN [exc |-> "none", path |-> f.path.s, idx |-> f.idx.n,
                   content |-> f.content.s]
             ELSE [NoChunk EXCEPT !.exc = "ValidationError"]

\* ------------------------------------------------------------------ authentication

\* Authenticate with the `return` of the invalid-key branch lost: a rejected
\* key falls through to processing.
AuthenticateNoReject(manager, auth_header) ==
    IF manager # None
    THEN IF auth_header.present /\ auth_header.value # <<>>
            /\ StartsWith(auth_header.value, S_Bearer)
         THEN NoResponse
         ELSE JSONResponse([error |-> <<"Authorization header required">>], 401)
    ELSE NoResponse

\* Authenticate without the startswith("Bearer ") test: the first seven
\* characters of any header are dropped and the rest is validated.
AuthenticateAnyScheme(manager, auth_header) ==
    IF manager # None
    THEN IF auth_header.present /\ auth_header.value # <<>>
         THEN LET api_key == SubSeq(auth_header.value, 8, Len(auth_header.value))
              IN  IF api_key \notin ValidKeys
                  THEN JSONResponse([error |-> <<"Invalid API key">>], 401)
                  ELSE NoResponse
         ELSE JSONResponse([error |-> <<"Authorization header required">>], 401)
    ELSE NoResponse

\* Authenticate without the `if self.auth_manager` test: a header is
\* demanded even when no manager is configured.
AuthenticateAlways(manager, auth_header) ==
    IF auth_header.present /\ auth_header.value # <<>>
       /\ StartsWith(auth_header.value, S_Bearer)
    THEN LET api_key == SubSeq(auth_header.value, 8, Len(auth_header.value))
         IN  IF api_key \notin ValidKeys
             THEN JSONResponse([error |-> <<"Invalid API key">>], 401)
             ELSE NoResponse
    ELSE JSONResponse([error |-> <<"Authorization header required">>], 401)

\* self.auth_manager.validate_api_key(api_key)
ValidateApiKey(api_key) == api_key \in ValidKeys

\* The authentication block of receive_code_chunk: the 401 response it
\* returns, or NoResponse when the handler goes on to process the chunk.
Authenticate(manager, auth_header) ==
    IF manager # None
    THEN IF auth_header.present /\ auth_header.value # <<>>
            /\ StartsWith(auth_header.value, S_Bearer)
         THEN LET api_key == SubSeq(auth_header.value, 8, Len(auth_header.value))
              IN  IF ~ValidateApiKey(api_key)
                  THEN JSONResponse([error |-> <<"Invalid API key">>], 401)
                  ELSE NoResponse
         ELSE JSONResponse([error |-> <<"Authorization header required">>], 401)
    ELSE NoResponse

\* ------------------------------------------------------------------ processing

\* FileExtension without the `if '.' in chunk.path` guard.
FileExtensionNoGuard(path) == Last(Split(path, "."))

\* file_extension = chunk.path.split('.')[-1] if '.' in chunk.path else ''
FileExtension(path) ==
    IF Contains(path, ".") THEN Last(Split(path, ".")) ELSE <<>>

\* The if/elif/else on file_extension.
Language(file_extension) ==
    IF file_extension = S_py
    THEN [language |-> "python", analysis |-> "Python file processed"]
    ELSE IF file_extension \in {S_ts, S_js}
         THEN [language |-> "typescript/javascript",
               analysis |-> "TypeScript/JavaScript file processed"]
         ELSE [language |-> "generic", analysis |-> "Generic file processed"]

\* StoreChunk assigning a fresh one-record list instead of appending.
StoreChunkOverwrite(storage, chunk, timestamp) ==
    [p \in DOMAIN storage \cup {chunk.path} |->
        IF p = chunk.path
        THEN <<[idx |-> chunk.idx, content |-> chunk.content,
                timestamp |-> timestamp]>>
        ELSE storage[p]]

\* StoreChunk keeping each log sorted by idx: the record goes before the
\* first stored record of larger idx.
StoreChunkSorted(storage, chunk, timestamp) ==
    LET old == IF chunk.path \in DOMAIN storage THEN storage[chunk.path] ELSE <<>>
        record == [idx |-> chunk.idx, content |-> chunk.content,
                   timestamp |-> timestamp]
        before == Cardinality({k \in 1..Len(old) : old[k].idx <= chunk.idx})
    IN  [p \in DOMAIN storage \cup {chunk.path} |->
            IF p = chunk.path
            THEN SubSeq(old, 1, before) \o <<record>>
                     \o SubSeq(old, before + 1, Len(old))
            ELSE storage[p]]

\* StoreChunk skipping a chunk whose idx and content are already stored for
\* the path.
StoreChunkDedup(storage, chunk, timestamp) ==
    LET old == IF chunk.path \in DOMAIN storage THEN storage[chunk.path] ELSE <<>>
        record == [idx |-> chunk.idx, content |-> chunk.content,
                   timestamp |-> timestamp]
    IN  [p \in DOMAIN storage \cup {chunk.path} |->
            IF p = chunk.path
            THEN IF \E k \in 1..Len(old) :
                        old[k].idx = chunk.idx /\ old[k].content = chunk.content
                 THEN old
                 ELSE Append(old, record)
            ELSE storage[p]]

\* StoreChunk inserting the record at the head of the list (insert(0, ...)).
StoreChunkPrepend(storage, chunk, timestamp) ==
    LET old == IF chunk.path \in DOMAIN storage THEN storage[chunk.path] ELSE <<>>
    IN  [p \in DOMAIN storage \cup {chunk.path} |->
            IF p = chunk.path
            THEN <<[idx |-> chunk.idx, content |-> chunk.content,
                    timestamp |-> timestamp]>> \o old
            ELSE storage[p]]

\* StoreChunk with the append under an `else`: the first chunk of a path
\* creates an empty list and is not stored.
StoreChunkCreateOnly(storage, chunk, timestamp) ==
    IF chunk.path \in DOMAIN storage
    THEN [storage EXCEPT ![chunk.path] =
              Append(@, [idx |-> chunk.idx, content |-> chunk.content,
                         timestamp |-> timestamp])]
    ELSE [p \in DOMAIN storage \cup {chunk.path} |->
              IF p \in DOMAIN storage THEN storage[p] ELSE <<>>]

\* StoreChunk rebinding self.chunk_storage to a dict that holds the current
\* path only.
StoreChunkDropOthers(storage, chunk, timestamp) ==
    LET old == IF chunk.path \in DOMAIN storage THEN storage[chunk.path] ELSE <<>>
    IN  [p \in {chunk.path} |->
            Append(old, [idx |-> chunk.idx, content |-> chunk.content,
                         timestamp |-> timestamp])]

\* The store after the `if file_key not in ...` / append of _process_chunk.
StoreChunk(storage, chunk, timestamp) ==
    LET file_key == chunk.path
        created == [p \in DOMAIN storage \cup {file_key} |->
                        IF p \in DOMAIN storage THEN storage[p] ELSE <<>>]
    IN  [created EXCEPT ![file_key] =
            Append(@, [idx |-> chunk.idx, content |-> chunk.content,
                       timestamp |-> timestamp])]

\* _process_chunk(chunk): the store it leaves and the result it returns.
ProcessChunk(storage, chunk, timestamp, processed_at) ==
    LET file_extension == FileExtension(chunk.path)
        lang == Language(file_extension)
    IN  [storage |-> StoreChunk(storage, chunk, timestamp),
         result |-> [file_path |-> chunk.path,
                     chunk_index |-> chunk.idx,
                     file_extension |-> file_extension,
                     content_length |-> Len(chunk.content),
                     lines_count |-> Len(Split(chunk.content, "\n")),
                     processed_at |-> processed_at,
                     language |-> lang.language,
                     analysis |-> lang.analysis]]

\* ------------------------------------------------------------------ handlers

\* s holds a lone surrogate.
HasLoneSurrogate(s) == \E k \in 1..Len(s) : s[k] = LoneSurrogate

\* JSONResponse(...) of the success body raises: its constructor renders the
\* content with json.dumps(..., ensure_ascii=False).encode("utf-8"), and a
\* lone surrogate in the message or the result (both hold chunk.path) cannot
\* be encoded (UnicodeEncodeError).
RenderRaises(chunk) == HasLoneSurrogate(chunk.path)

\* HandleChunk without the `except Exception` clause: only JSONDecodeError
\* is caught, any other exception leaves the handler and no response is
\* returned.
HandleChunkNarrowExcept(storage, manager, body, auth_header, timestamp, processed_at) ==
    LET loaded == JsonLoads(body)
    IN  IF loaded.exc = "JSONDecodeError"
        THEN [response |-> JSONResponse([error |-> <<"Invalid JSON">>], 400),
              storage |-> storage]
        ELSE IF loaded.exc # "none"
        THEN [response |-> NoResponse, storage |-> storage]
        ELSE LET chunk == CodeChunk(loaded.value)
             IN  IF chunk.exc # "none"
                 THEN [response |-> NoResponse, storage |-> storage]
                 ELSE LET denied == Authenticate(manager, auth_header)
                      IN  IF denied # NoResponse
                          THEN [response |-> denied, storage |-> storage]
                          ELSE LET done == ProcessChunk(storage, chunk, timestamp,
                                                        processed_at)
                               IN  IF RenderRaises(chunk)
                                   THEN [response |-> NoResponse,
                                         storage |-> done.storage]
                                   ELSE
                                   [response |-> JSONResponse(
                                        [status |-> "ok",
                                         message |-> <<"Processed chunk ", chunk.idx,
                                                       " from ", chunk.path>>,
                                         result |-> done.result], 200),
                                    storage |-> done.storage]

\* receive_code_chunk from the point where request.body() has returned `body`:
\* the response it returns and the store it leaves.
HandleChunk(storage, manager, body, auth_header, timestamp, processed_at) ==
    LET loaded == JsonLoads(body)
    IN  IF loaded.exc = "JSONDecodeError"
        THEN [response |-> JSONResponse([error |-> <<"Invalid JSON">>], 400),
              storage |-> storage]
        ELSE IF loaded.exc # "none"
        THEN [response |-> JSONResponse(
                               [error |-> <<"Processing error: ", loaded.exc>>], 500),
              storage |-> storage]
        ELSE LET chunk == CodeChunk(loaded.value)
             IN  IF chunk.exc # "none"
                 THEN [response |-> JSONResponse(
                                        [error |-> <<"Processing error: ", chunk.exc>>],
                                        500),
                       storage |-> storage]
                 ELSE LET denied == Authenticate(manager, auth_header)
                      IN  IF denied # NoResponse
                          THEN [response |-> denied, storage |-> storage]
                          ELSE LET done == ProcessChunk(storage, chunk, timestamp,
                                                        processed_at)
                               IN  IF RenderRaises(chunk)
                                   THEN [response |-> JSONResponse(
                                             [error |-> <<"Processing error: ",
                                                          "UnicodeEncodeError">>], 500),
                                         storage |-> done.storage]
                                   ELSE
                                   [response |-> JSONResponse(
                                        [status |-> "ok",
                                         message |-> <<"Processed chunk ", chunk.idx,
                                                       " from ", chunk.path>>,
                                         result |-> done.result], 200),
                                    storage |-> done.storage]

\* StatusBody with a health check: an empty store is reported as idle.
StatusBodyHealthCheck(storage, timestamp) ==
    [service |-> "vscode-mcp-integration",
     status |-> IF DOMAIN storage = {} THEN "idle" ELSE "healthy",
     timestamp |-> timestamp,
     chunks_processed |-> Cardinality(DOMAIN storage),
     endpoints |-> {"POST /index/chunk", "GET /index/status"}]

\* The body of the status response built by indexing_status.
StatusBody(storage, timestamp) ==
    [service |-> "vscode-mcp-integration",
     status |-> "healthy",
     timestamp |-> timestamp,
     chunks_processed |-> Cardinality(DOMAIN storage),
     endpoints |-> {"POST /index/chunk", "GET /index/status"}]

\* ------------------------------------------------------------------ actions

\* VSCodeIntegration.__init__ followed by register_endpoints.
Init ==
    /\ chunk_storage = EmptyStorage
    /\ auth_manager \in {None, Manager}
    /\ in_flight = 0
    /\ response = NoResponse
    /\ answered_ok = 0

\* A POST /index/chunk request reaches receive_code_chunk, which suspends at
\* `await request.body()`.
AcceptChunkRequest ==
    /\ in_flight < MaxInFlight
    /\ in_flight' = in_flight + 1
    /\ UNCHANGED <<chunk_storage, auth_manager, response, answered_ok>>

\* One suspended receive_code_chunk resumes with its body and runs to its
\* return (it has no other suspension point: _process_chunk awaits nothing).
ReceiveCodeChunk(body, auth_header, timestamp, processed_at) ==
    LET out == HandleChunk(chunk_storage, auth_manager, body, auth_header,
                           timestamp, processed_at)
    IN  /\ in_flight > 0
        /\ TotalChunks(out.storage) <= MaxChunks
        /\ in_flight' = in_flight - 1
        /\ chunk_storage' = out.storage
        /\ response' = out.response
        /\ answered_ok' = IF out.response.status = 200
                          THEN answered_ok + 1
                          ELSE answered_ok
        /\ UNCHANGED auth_manager

\* GET /index/status: indexing_status runs from entry to return.
IndexingStatus(timestamp) ==
    /\ response' = JSONResponse(StatusBody(chunk_storage, timestamp), 200)
    /\ UNCHANGED <<chunk_storage, auth_manager, in_flight, answered_ok>>

Next ==
    \/ AcceptChunkRequest
    \/ \E body \in Bodies, auth_header \in Headers, t1 \in Instants, t2 \in Instants :
           ReceiveCodeChunk(body, auth_header, t1, t2)
    \/ \E t \in Instants : IndexingStatus(t)

Spec == Init /\ [][Next]_vars

\* ------------------------------------------------------------------ classification of arbitrary paths

\* The characters path strings are built from: the separator and the letters
\* of the extensions the code tests for.
PathAlphabet == {".", "p", "y", "t", "s", "j"}

\* All strings over PathAlphabet of length at most n.
RECURSIVE StringsUpTo(_)
StringsUpTo(n) ==
    IF n = 0
    THEN {<<>>}
    ELSE LET shorter == StringsUpTo(n - 1)
         IN  shorter \cup {Append(s, c) : s \in shorter, c \in PathAlphabet}

PathStrings == StringsUpTo(MaxPathLen)

ClassifyContents == {S_x_eq_1, S_two_lines}
ClassifyIdxs == {0, 1}

\* Stores a classified request may meet: empty, or holding an earlier chunk.
ClassifyStores ==
    { EmptyStorage,
      StoreChunk(EmptyStorage, [NoChunk EXCEPT !.path = S_py, !.content = S_x_eq_1], 0) }

ClassifyInit ==
    /\ chunk_storage \in ClassifyStores
    /\ auth_manager = None
    /\ in_flight = 0
    /\ response = NoResponse
    /\ answered_ok = 0

\* The first chunk request to arrive is answered; its path is any string.
ClassifyReceive ==
    /\ response = NoResponse
    /\ \E path \in PathStrings, idx \in ClassifyIdxs, content \in ClassifyContents,
          t \in Instants :
           ReceiveCodeChunk(ChunkBody(path, idx, content), NoHeader, t, t)

ClassifyNext ==
    \/ AcceptChunkRequest
    \/ ClassifyReceive

ClassifySpec == ClassifyInit /\ [][ClassifyNext]_vars

\* ------------------------------------------------------------------ vocabulary of the claims

\* The log of a path, empty when the path is not a key of the store.
LogOf(storage, path) == IF path \in DOMAIN storage THEN storage[path] ELSE <<>>

\* The idx values of a log, in stored order.
IdxSeq(log) == [k \in 1..Len(log) |-> log[k].idx]

\* Number of records of a log that carry the given idx and content.
Occurrences(log, idx, content) ==
    Cardinality({k \in 1..Len(log) : log[k].idx = idx /\ log[k].content = content})

\* The body is a JSON object with a string path, an integer idx and a string
\* content.
IsChunkRequest(body) ==
    /\ body.kind = "object"
    /\ {"path", "idx", "content"} \subseteq DOMAIN body.fields
    /\ body.fields.path.type = "str"
    /\ body.fields.idx.type = "int"
    /\ body.fields.content.type = "str"

\* The header has the form 'Bearer <token>' and the capability accepts <token>.
PresentsAcceptedToken(auth_header) ==
    /\ auth_header.present
    /\ Len(auth_header.value) >= 7
    /\ \A k \in 1..7 : auth_header.value[k] = S_Bearer[k]
    /\ \E key \in ValidKeys : auth_header.value = S_Bearer \o key

\* The request passes authentication, or none is configured.
PassesAuthentication(auth_header) ==
    auth_manager = None \/ PresentsAcceptedToken(auth_header)

\* This step is a receive_code_chunk call running on this body and header.
Handles(body, auth_header) ==
    \E t1 \in Instants, t2 \in Instants : ReceiveCodeChunk(body, auth_header, t1, t2)

\* A 200 response of POST /index/chunk.
IsChunkOk(resp) == resp.status = 200 /\ "result" \in DOMAIN resp.body

\* A 200 response of GET /index/status.
IsStatusOk(resp) == resp.status = 200 /\ "chunks_processed" \in DOMAIN resp.body

IsRejection(resp) == resp.status \in {400, 401, 500}

\* ------------------------------------------------------------------ claims

\* The outcome (response and store) of receive_code_chunk run in the current
\* state on this body and header.
Outcome(body, auth_header, t1, t2) ==
    HandleChunk(chunk_storage, auth_manager, body, auth_header, t1, t2)

\* C1: in every reachable state, a well-typed chunk request that passes
\* authentication (or meets no authentication capability) appends exactly one
\* record, carrying its idx and content, at the end of the log of its path,
\* and the number of records over all paths grows by exactly one.
C1_ValidRequestAppendsOne ==
    \A body \in Bodies, auth_header \in Headers, t1 \in Instants, t2 \in Instants :
        (IsChunkRequest(body) /\ PassesAuthentication(auth_header))
        => \A out \in {Outcome(body, auth_header, t1, t2)} :
           LET path == body.fields.path.s
               old == LogOf(chunk_storage, path)
               new == LogOf(out.storage, path)
           IN  /\ Len(new) = Len(old) + 1
               /\ SubSeq(new, 1, Len(old)) = old
               /\ new[Len(new)].idx = body.fields.idx.n
               /\ new[Len(new)].content = body.fields.content.s
               /\ TotalChunks(out.storage) = TotalChunks(chunk_storage) + 1

C1_Witness ==
    /\ auth_manager = Manager
    /\ IsChunkOk(response)
    /\ LET log == LogOf(chunk_storage, response.body.result.file_path)
       IN  /\ Len(log) >= 2
           /\ log[Len(log)].idx = response.body.result.chunk_index

C3_StatusCountsRecords ==
    IsStatusOk(response)
        => response.body.chunks_processed = TotalChunks(chunk_storage)

\* C4: a body that is valid JSON but lacks a field, or carries a field of the
\* wrong type, is answered 400 with an error body.
C4_InvalidFieldsAnswered400 ==
    [][\A body \in Bodies, auth_header \in Headers :
          (Handles(body, auth_header) /\ body.kind = "object"
              /\ ~IsChunkRequest(body))
          => (response'.status = 400 /\ "error" \in DOMAIN response'.body)
      ]_vars

\* C5: a body that is not parseable JSON is answered 400, whatever the
\* authentication configuration and the Authorization header.
C5_UnparseableAnswered400 ==
    [][\A body \in Bodies, auth_header \in Headers :
          (Handles(body, auth_header) /\ body.kind \in {"undecodable", "malformed"})
          => response'.status = 400
      ]_vars

C7_HeaderIgnoredWithoutAuth ==
    auth_manager = None
        => /\ response.status # 401
           /\ \A body \in Bodies, t1 \in Instants, t2 \in Instants :
                  \A bare \in {Outcome(body, NoHeader, t1, t2)} :
                      /\ bare.response.status # 401
                      /\ \A auth_header \in Headers \ {NoHeader} :
                             Outcome(body, auth_header, t1, t2) = bare

C7_Witness ==
    /\ auth_manager = None
    /\ IsChunkOk(response)
    /\ Cardinality(DOMAIN chunk_storage) = 2

\* C8: each log lists the accepted chunks of its path in the order of
\* acceptance: in every reachable state, an accepted chunk's idx goes at the
\* end of the idx sequence of its path, whatever the idx values already there.
C8_ArrivalOrderKept ==
    \A body \in Bodies, auth_header \in Headers, t1 \in Instants, t2 \in Instants :
        \A out \in {Outcome(body, auth_header, t1, t2)} :
            IsChunkOk(out.response)
            => LET path == out.response.body.result.file_path
               IN  /\ IsChunkRequest(body)
                   /\ path = body.fields.path.s
                   /\ IdxSeq(LogOf(out.storage, path))
                          = Append(IdxSeq(LogOf(chunk_storage, path)),
                                   body.fields.idx.n)

C8_Witness ==
    \E path \in DOMAIN chunk_storage : IdxSeq(chunk_storage[path]) = <<2, 0, 1>>

\* C9: accepting a chunk whose (idx, content) is already stored for its path
\* stores one more record with that idx and content, and one more record in
\* all: nothing is deduplicated.
C9_DuplicateStoredAgain ==
    \A body \in Bodies, auth_header \in Headers, t1 \in Instants, t2 \in Instants :
        IsChunkRequest(body)
        => LET path == body.fields.path.s
               idx == body.fields.idx.n
               content == body.fields.content.s
               stored == Occurrences(LogOf(chunk_storage, path), idx, content)
           IN  stored >= 1
               => \A out \in {Outcome(body, auth_header, t1, t2)} :
                      IsChunkOk(out.response)
                      => /\ Occurrences(LogOf(out.storage, path), idx, content)
                                = stored + 1
                         /\ TotalChunks(out.storage) = TotalChunks(chunk_storage) + 1

C9_Witness ==
    \E path \in DOMAIN chunk_storage :
        \E i \in 1..Len(chunk_storage[path]), j \in 1..Len(chunk_storage[path]) :
            /\ i < j
            /\ chunk_storage[path][i].idx = chunk_storage[path][j].idx
            /\ chunk_storage[path][i].content = chunk_storage[path][j].content

\* The extension the claim names: the suffix after the last '.', empty when
\* the path has no '.'.
IsSuffixAfterLastDot(path, ext) ==
    IF \A k \in 1..Len(path) : path[k] # "."
    THEN ext = <<>>
    ELSE \E k \in 1..Len(path) :
             /\ path[k] = "."
             /\ \A j \in (k + 1)..Len(path) : path[j] # "."
             /\ ext = SubSeq(path, k + 1, Len(path))

\* The language the claim names for an extension.
LanguageOf(ext) ==
    CASE ext = <<"p", "y">> -> "python"
      [] ext = <<"t", "s">> -> "typescript/javascript"
      [] ext = <<"j", "s">> -> "typescript/javascript"
      [] OTHER -> "generic"

\* C10: the extension and language of a successful response are determined
\* by the path alone: the extension is the suffix after the last '.' of the
\* path (empty without a '.'), and the language is python for py,
\* typescript/javascript for ts and js, generic otherwise, whatever the store
\* holds and whatever idx and content are.
C10_ClassificationByPathAlone ==
    IsChunkOk(response)
        => LET result == response.body.result
           IN  /\ result.file_path \in DOMAIN chunk_storage
               /\ IsSuffixAfterLastDot(result.file_path, result.file_extension)
               /\ result.language = LanguageOf(result.file_extension)

C10_Witness ==
    /\ IsChunkOk(response)
    /\ response.body.result.file_path = <<"p", ".", "j", "s">>
    /\ response.body.result.language = "typescript/javascript"
    /\ response.body.result.chunk_index = 1
    /\ Cardinality(DOMAIN chunk_storage) = 2

\* A response of POST /index/chunk as the interface allows it: one of the
\* four statuses, and an error field in the body of every status but 200.
IsChunkResponse(resp) ==
    /\ resp.status \in {200, 400, 401, 500}
    /\ resp.status # 200 => "error" \in DOMAIN resp.body
    /\ resp.status = 200 => IsChunkOk(resp)

\* A response of GET /index/status as the interface allows it.
IsStatusResponse(resp) ==
    /\ resp.status \in {200, 500}
    /\ resp.status # 200 => "error" \in DOMAIN resp.body
    /\ resp.status = 200 => IsStatusOk(resp)

\* C11: every request ends with a response: in every reachable state,
\* receive_code_chunk run on any body and header returns a response with
\* status 200, 400, 401 or 500, indexing_status returns one with status 200
\* or 500, every response other than 200 carries an error field, and no
\* exception leaves a handler without a response.
C11_EveryRequestAnswered ==
    [](/\ \A body \in Bodies, auth_header \in Headers, t1 \in Instants, t2 \in Instants :
              \A answer \in {Outcome(body, auth_header, t1, t2).response} :
                  IsChunkResponse(answer)
       /\ \A t \in Instants :
              IsStatusResponse(JSONResponse(StatusBody(chunk_storage, t), 200))
       /\ response # NoResponse
              => (IsChunkResponse(response) \/ IsStatusResponse(response)))

C11_Witness ==
    /\ response.status = 500
    /\ response.body.error = <<"Processing error: ", "ValidationError">>
    /\ answered_ok >= 1

\* C12: a record is appended exactly when the request is answered 200: over
\* every step in which receive_code_chunk returns, the store changes if and
\* only if the response is 200, and a response of 500 leaves the store as it
\* was.
C12_AppendIffAnswered200 ==
    [][in_flight' = in_flight - 1
          => /\ (chunk_storage' # chunk_storage) <=> IsChunkOk(response')
             /\ response'.status = 500 => chunk_storage' = chunk_storage
      ]_vars

\* C13: the store is append-only: over every step, every path stays a key,
\* its log before the step is a prefix of its log after it, and the number
\* of records does not decrease.
C13_AppendOnly ==
    [][/\ \A path \in DOMAIN chunk_storage :
              /\ path \in DOMAIN chunk_storage'
              /\ Len(chunk_storage'[path]) >= Len(chunk_storage[path])
              /\ SubSeq(chunk_storage'[path], 1, Len(chunk_storage[path]))
                     = chunk_storage[path]
       /\ TotalChunks(chunk_storage') >= TotalChunks(chunk_storage)
      ]_vars

C13_Witness ==
    /\ Cardinality(DOMAIN chunk_storage) = 2
    /\ \E path \in DOMAIN chunk_storage : Len(chunk_storage[path]) = 2
    /\ IsRejection(response)

\* C14: once no chunk request is in flight, the number of stored records
\* equals the number of requests answered 200.
C14_RecordsEqualAnswered200 ==
    in_flight = 0 => TotalChunks(chunk_storage) = answered_ok

\* C15: every key of the store maps to a non-empty log, so the store never
\* holds more paths than records; and a path becomes a key exactly when a
\* chunk for it is accepted (it passes validation and authentication):
\* the handler adds the path of such a request to the keys, and no other.
C15_KeysHaveRecords ==
    [](/\ \A path \in DOMAIN chunk_storage : Len(chunk_storage[path]) >= 1
       /\ Cardinality(DOMAIN chunk_storage) <= TotalChunks(chunk_storage)
       /\ \A body \in Bodies, auth_header \in Headers, t1 \in Instants, t2 \in Instants :
              \A out \in {Outcome(body, auth_header, t1, t2)} :
                  LET accepted == IsChunkRequest(body) /\ PassesAuthentication(auth_header)
                  IN  /\ DOMAIN out.storage
                             = DOMAIN chunk_storage
                                   \cup (IF accepted THEN {body.fields.path.s} ELSE {})
                      /\ \A path \in DOMAIN out.storage : Len(out.storage[path]) >= 1)

C15_Witness ==
    /\ Cardinality(DOMAIN chunk_storage) = 2
    /\ TotalChunks(chunk_storage) = 3
    /\ IsChunkOk(response)

\* A header that passes authentication under either configuration.
AcceptedHeader == Header(S_Bearer \o S_key_good)

\* The paths of the chunk requests in a fixed order, so that a pair of
\* requests for two different paths is taken once and not once per order.
PathOrder == <<S_a_py, S_b_ts, S_u_py>>

PathRank(path) == CHOOSE i \in DOMAIN PathOrder : PathOrder[i] = path

\* C16: in every reachable state an accepted chunk for a path changes the log
\* of that path only: the other paths keep their keys and logs; and two
\* accepted chunks for different paths leave the same store in either order.
C16_OtherPathsUntouched ==
    [](/\ \A body \in Bodies, auth_header \in Headers, t1 \in Instants, t2 \in Instants :
              (IsChunkRequest(body) /\ PassesAuthentication(auth_header))
              => \A out \in {Outcome(body, auth_header, t1, t2)} :
                     \A other \in (DOMAIN chunk_storage \cup DOMAIN out.storage)
                                      \ {body.fields.path.s} :
                         /\ other \in DOMAIN chunk_storage
                         /\ other \in DOMAIN out.storage
                         /\ out.storage[other] = chunk_storage[other]
       /\ \A b1 \in Bodies, b2 \in Bodies, t \in Instants :
              (IsChunkRequest(b1) /\ IsChunkRequest(b2)
                  /\ PathRank(b1.fields.path.s) < PathRank(b2.fields.path.s))
              => LET first == HandleChunk(chunk_storage, auth_manager, b1,
                                          AcceptedHeader, t, t).storage
                     second == HandleChunk(chunk_storage, auth_manager, b2,
                                           AcceptedHeader, t, t).storage
                 IN  HandleChunk(first, auth_manager, b2, AcceptedHeader, t, t).storage
                         = HandleChunk(second, auth_manager, b1, AcceptedHeader, t, t).storage)

C16_Witness ==
    /\ IsChunkOk(response)
    /\ response.body.result.file_path = S_b_ts
    /\ S_a_py \in DOMAIN chunk_storage
    /\ Len(chunk_storage[S_a_py]) = 2
    /\ Len(chunk_storage[S_b_ts]) = 1

\* C17: GET /index/status is read-only and always healthy: a step of
\* indexing_status leaves the store as it was and answers 200 with status
\* healthy and service vscode-mcp-integration, its chunks_processed is
\* determined by the store, and it repeats the chunks_processed of a status
\* response that no chunk request has followed.
C17_StatusReadOnlyHealthy ==
    [][(\E t \in Instants : IndexingStatus(t))
          => /\ chunk_storage' = chunk_storage
             /\ response'.status = 200
             /\ response'.body.status = "healthy"
             /\ response'.body.service = "vscode-mcp-integration"
             /\ response'.body.chunks_processed = Cardinality(DOMAIN chunk_storage)
             /\ IsStatusOk(response)
                    => response'.body.chunks_processed
                           = response.body.chunks_processed
      ]_vars

C17_Witness ==
    /\ IsStatusOk(response)
    /\ response.body.status = "healthy"
    /\ response.body.chunks_processed = 2
    /\ TotalChunks(chunk_storage) = 3

====
